---- MODULE Spec2Model ----
(***************************************************************************)
(* Model of scripts/release.py, the release script of git-iris.            *)
(*                                                                         *)
(* Text is a sequence of characters; a character is a one-character string *)
(* ("1", ".", "\n", ...), except "ESC" (0x1B) and "WIDE" (a double-width   *)
(* character such as U+3000, which the banner uses).  The regular          *)
(* expressions of the script are modelled by the scans the regex engine    *)
(* performs.  In each of them the classes of adjacent pattern items are    *)
(* disjoint, so the greedy scan never has to backtrack.                    *)
(***************************************************************************)
EXTENDS Integers, Sequences, FiniteSets, TLC

VARIABLES
    pc,               \* position of the run in main (or in a function-level run)
    installed,        \* tools found by shutil.which
    readable,         \* whether Cargo.toml can be opened for reading
    manifest0,        \* contents of Cargo.toml when the run starts
    manifest,         \* contents of Cargo.toml
    current_version,  \* main: current_version (<<>>: not set)
    new_version,      \* main: new_version (<<>>: not read yet)
    trace,            \* external commands, prompts and file accesses, in order
    errors,           \* messages printed through print_error, in order
    uncaught,         \* the exception that ended the run ("none": no exception)
    exit_code,        \* exit status of the process (-1: still running)
    commits,          \* messages of the commits made in the local repository
    pushed,           \* messages of the commits on the remote
    tags,             \* tags of the local repository
    pushed_tags,      \* tags on the remote
    text,             \* function-level runs: the argument
    width,            \* function-level runs: center_text's width
    ret               \* function-level runs: the value returned

vars == <<pc, installed, readable, manifest0, manifest, current_version,
          new_version, trace, errors, uncaught, exit_code, commits, pushed,
          tags, pushed_tags, text, width, ret>>

mainVars == <<installed, readable, manifest0, manifest, current_version,
              new_version, trace, errors, uncaught, exit_code, commits,
              pushed, tags, pushed_tags>>

(***************************************************************************)
(* Bounds of the model.                                                    *)
(***************************************************************************)
MaxLines == 2   \* lines of a manifest
MaxLen == 6     \* characters of an argument of is_valid_version
MaxTokens == 3  \* tokens of an argument of center_text
MaxWidth == 6   \* center_text's width

(***************************************************************************)
(* Characters and sequences.                                               *)
(***************************************************************************)
Digits == {"0", "1", "2", "3", "4", "5", "6", "7", "8", "9"}

\* \d of the re module, on the characters of the model
IsDigit(c) == c \in Digits

\* \s of the re module, on the characters of the model
IsSpace(c) == c \in {" ", "\t", "\n"}

RECURSIVE SeqsUpTo(_, _)
\* every sequence of at most n elements of S
SeqsUpTo(S, n) ==
    IF n = 0 THEN {<<>>}
    ELSE LET shorter == SeqsUpTo(S, n - 1)
         IN shorter \cup {Append(s, c) : s \in {t \in shorter : Len(t) = n - 1}, c \in S}

RECURSIVE Flatten(_)
\* the concatenation of a sequence of sequences
Flatten(ss) == IF ss = <<>> THEN <<>> ELSE Head(ss) \o Flatten(Tail(ss))

RECURSIVE Join(_)
\* "\n".join(lines)
Join(lines) ==
    IF lines = <<>> THEN <<>>
    ELSE IF Len(lines) = 1 THEN Head(lines)
    ELSE Head(lines) \o <<"\n">> \o Join(Tail(lines))

RECURSIVE SkipDigits(_, _)
\* the position after the longest run of \d that starts at i (a greedy \d*)
SkipDigits(s, i) ==
    IF i <= Len(s) /\ IsDigit(s[i]) THEN SkipDigits(s, i + 1) ELSE i

RECURSIVE SkipSpace(_, _)
\* the position after the longest run of \s that starts at i (a greedy \s*)
SkipSpace(s, i) ==
    IF i <= Len(s) /\ IsSpace(s[i]) THEN SkipSpace(s, i + 1) ELSE i

\* s holds the literal lit at position i
HasLit(s, i, lit) ==
    /\ i >= 1
    /\ i + Len(lit) - 1 <= Len(s)
    /\ SubSeq(s, i, i + Len(lit) - 1) = lit

\* \d+\.\d+\.\d+ matched at position i: the position after the match, 0 when
\* there is no match
TripleEnd(s, i) ==
    LET a == SkipDigits(s, i)
        b == SkipDigits(s, a + 1)
        c == SkipDigits(s, b + 1)
    IN IF /\ a > i /\ a <= Len(s) /\ s[a] = "."
          /\ b > a + 1 /\ b <= Len(s) /\ s[b] = "."
          /\ c > b + 1
       THEN c ELSE 0

VERSION_KEY == <<"v", "e", "r", "s", "i", "o", "n">>

\* version\s*=\s*"(\d+\.\d+\.\d+)" matched at position i: the positions of
\* the two quotes, <<>> when there is no match
AssignMatch(s, i) ==
    LET eq == SkipSpace(s, i + Len(VERSION_KEY))
        open == SkipSpace(s, eq + 1)
        close == TripleEnd(s, open + 1)
    IN IF /\ HasLit(s, i, VERSION_KEY)
          /\ eq <= Len(s) /\ s[eq] = "="
          /\ open <= Len(s) /\ s[open] = "\""
          /\ close # 0 /\ close <= Len(s) /\ s[close] = "\""
       THEN <<open, close>> ELSE <<>>

RECURSIVE SearchFrom(_, _)
\* re.search: the leftmost position, from i on, at which the pattern
\* matches (0: none)
SearchFrom(s, i) ==
    IF i > Len(s) THEN 0
    ELSE IF AssignMatch(s, i) # <<>> THEN i
    ELSE SearchFrom(s, i + 1)

\* get_current_version on the text of the manifest: group 1 of the match,
\* <<>> when the pattern is not found (print_error, sys.exit(1))
get_current_version(content) ==
    LET at == SearchFrom(content, 1)
        m == AssignMatch(content, at)
    IN IF at = 0 THEN <<>> ELSE SubSeq(content, m[1] + 1, m[2] - 1)

\* ^ under re.MULTILINE: the start of the text and after each newline
AtLineStart(s, i) == i = 1 \/ s[i - 1] = "\n"

RECURSIVE SubFrom(_, _, _)
\* re.sub from position i on: every match is replaced by group 1, a quote,
\* new_version and a quote; the other characters are copied
SubFrom(s, i, new) ==
    IF i > Len(s) THEN <<>>
    ELSE LET m == AssignMatch(s, i)
         IN IF AtLineStart(s, i) /\ m # <<>>
            THEN SubSeq(s, i, m[1] - 1) \o <<"\"">> \o new \o <<"\"">>
                 \o SubFrom(s, m[2] + 1, new)
            ELSE <<s[i]>> \o SubFrom(s, i + 1, new)

\* update_version: the text written back to the manifest.  new_version has
\* no backslash, so the replacement template holds one group reference
update_version(content, new) == SubFrom(content, 1, new)

\* is_valid_version: re.match of ^\d+\.\d+\.\d+$; without re.MULTILINE, $
\* matches at the end of the text and before a newline that ends the text
is_valid_version(version) ==
    LET e == TripleEnd(version, 1)
    IN /\ e # 0
       /\ \/ e = Len(version) + 1
          \/ e = Len(version) /\ version[e] = "\n"

(***************************************************************************)
(* Manifests and versions the runs draw from.                              *)
(***************************************************************************)
\* key = "value"
Assign(key, value) == key \o <<" ", "=", " ", "\"">> \o value \o <<"\"">>

V123 == <<"1", ".", "2", ".", "3">>
V040 == <<"0", ".", "4", ".", "0">>
V170 == <<"1", ".", "7", ".", "0">>
V130 == <<"1", ".", "3", ".", "0">>

ManifestLines ==
    { Assign(VERSION_KEY, V123),                            \* version = "1.2.3"
      Assign(VERSION_KEY, V040),                            \* version = "0.4.0"
      Assign(<<"r", "u", "s", "t", "-">> \o VERSION_KEY, V170),  \* rust-version = "1.7.0"
      Assign(<<"n", "a", "m", "e">>, <<"x">>),              \* name = "x"
      Assign(VERSION_KEY, <<"1", ".", "2">>) }              \* version = "1.2"

Manifests == {Join(ls) : ls \in SeqsUpTo(ManifestLines, MaxLines)}

\* what input() can return at the version prompt (a line without its newline)
VersionInputs ==
    { V130, <<"1", ".", "3">>, <<"v">> \o V130, V130 \o <<" ">>, <<>>,
      <<"1", "0", ".", "0", ".", "1">> }

\* arguments of update_version in the function-level runs
NewVersions ==
    { V130, V130 \o <<"\n">>, <<"1", "0", ".", "0", ".", "1">>,
      <<"1", ".", "3">> }

ValidChars == {"1", "0", ".", "\n", "x", " "}

(***************************************************************************)
(* Function-level runs: get_current_version, update_version,               *)
(* get_current_version again.                                              *)
(***************************************************************************)
IdleMain ==
    /\ installed = {}
    /\ readable = TRUE
    /\ trace = <<>>
    /\ errors = <<>>
    /\ uncaught = "none"
    /\ exit_code = -1
    /\ commits = <<>>
    /\ pushed = <<>>
    /\ tags = <<>>
    /\ pushed_tags = <<>>

VersionInit ==
    /\ pc = "v_get"
    /\ manifest0 \in Manifests
    /\ manifest = manifest0
    /\ new_version \in NewVersions
    /\ current_version = <<>>
    /\ text = <<>> /\ width = 0 /\ ret = <<>>
    /\ IdleMain

VGet ==
    /\ pc = "v_get"
    /\ current_version' = get_current_version(manifest)
    /\ pc' = "v_update"
    /\ UNCHANGED <<installed, readable, manifest0, manifest, new_version,
                   trace, errors, uncaught, exit_code, commits, pushed, tags,
                   pushed_tags, text, width, ret>>

VUpdate ==
    /\ pc = "v_update"
    /\ manifest' = update_version(manifest, new_version)
    /\ pc' = "v_reget"
    /\ UNCHANGED <<installed, readable, manifest0, current_version,
                   new_version, trace, errors, uncaught, exit_code, commits,
                   pushed, tags, pushed_tags, text, width, ret>>

VReget ==
    /\ pc = "v_reget"
    /\ ret' = get_current_version(manifest)
    /\ pc' = "v_done"
    /\ UNCHANGED <<mainVars, text, width>>

VersionNext == VGet \/ VUpdate \/ VReget

VersionSpec == VersionInit /\ [][VersionNext]_vars

(***************************************************************************)
(* Function-level runs: is_valid_version.                                  *)
(***************************************************************************)
ValidInit ==
    /\ pc = "valid_call"
    /\ text \in SeqsUpTo(ValidChars, MaxLen)
    /\ width = 0 /\ ret = <<>>
    /\ manifest0 = <<>> /\ manifest = <<>>
    /\ current_version = <<>> /\ new_version = <<>>
    /\ IdleMain

Validate ==
    /\ pc = "valid_call"
    /\ ret' = <<is_valid_version(text)>>
    /\ pc' = "valid_done"
    /\ UNCHANGED <<mainVars, text, width>>

ValidNext == Validate

ValidSpec == ValidInit /\ [][ValidNext]_vars

(***************************************************************************)
(* The banner's text layout: strip_ansi, wcswidth, center_text.            *)
(***************************************************************************)
\* code points of the characters of the model
Ord(c) ==
    CASE c = "ESC" -> 27
      [] c = " " -> 32
      [] c = "3" -> 51
      [] c = ";" -> 59
      [] c = "[" -> 91
      [] c = "a" -> 97
      [] c = "m" -> 109
      [] c = "WIDE" -> 12288

RECURSIVE SkipRange(_, _, _, _)
\* the position after the longest run, from i on, of characters whose code
\* points are in lo..hi (a greedy [lo-hi]*)
SkipRange(s, i, lo, hi) ==
    IF i <= Len(s) /\ Ord(s[i]) \in lo..hi
    THEN SkipRange(s, i + 1, lo, hi) ELSE i

\* \x1B[@-_][0-?]*[ -/]*[@-~] matched at position i: the position after the
\* match, 0 when there is no match
AnsiEnd(s, i) ==
    LET p == SkipRange(s, i + 2, 48, 63)
        q == SkipRange(s, p, 32, 47)
    IN IF /\ i + 1 <= Len(s)
          /\ s[i] = "ESC"
          /\ Ord(s[i + 1]) \in 64..95
          /\ q <= Len(s)
          /\ Ord(s[q]) \in 64..126
       THEN q + 1 ELSE 0

RECURSIVE StripFrom(_, _)
\* ansi_escape.sub("", text) from position i on
StripFrom(s, i) ==
    IF i > Len(s) THEN <<>>
    ELSE IF AnsiEnd(s, i) # 0 THEN StripFrom(s, AnsiEnd(s, i))
    ELSE <<s[i]>> \o StripFrom(s, i + 1)

\* strip_ansi
strip_ansi(s) == StripFrom(s, 1)

\* wcwidth of the wcwidth package: -1 for a control character, 2 for a wide
\* character, 1 for the other characters of the model
wcwidth(c) == IF c = "ESC" THEN -1 ELSE IF c = "WIDE" THEN 2 ELSE 1

RECURSIVE SumWidth(_)
SumWidth(s) == IF s = <<>> THEN 0 ELSE wcwidth(Head(s)) + SumWidth(Tail(s))

\* wcswidth of the wcwidth package: -1 when a character has no width
wcswidth(s) ==
    IF \E k \in 1..Len(s) : wcwidth(s[k]) < 0 THEN -1 ELSE SumWidth(s)

\* ' ' * n (the empty text for n <= 0)
Spaces(n) == [k \in 1..n |-> " "]

\* a plausible slip: the padding computed from len(text), escapes included
center_text_len(s, w) ==
    LET visible_length == Len(s)
        padding == (w - visible_length) \div 2
    IN Spaces(padding) \o s \o Spaces(w - padding - visible_length)

\* center_text
center_text(s, w) ==
    LET visible_length == wcswidth(strip_ansi(s))
        padding == (w - visible_length) \div 2
    IN Spaces(padding) \o s \o Spaces(w - padding - visible_length)

COLOR == <<"ESC", "[", "3", ";", "3", "m">>

BannerTokens ==
    {COLOR, <<"a">>, <<"WIDE">>, <<"ESC">>, <<"[">>, <<"3">>, <<"m">>, <<" ">>}

BannerTexts == {Flatten(ts) : ts \in SeqsUpTo(BannerTokens, MaxTokens)}

BannerInit ==
    /\ pc = "center_call"
    /\ text \in BannerTexts
    /\ width \in 0..MaxWidth
    /\ ret = <<>>
    /\ manifest0 = <<>> /\ manifest = <<>>
    /\ current_version = <<>> /\ new_version = <<>>
    /\ IdleMain

Center ==
    /\ pc = "center_call"
    /\ ret' = center_text(text, width)
    /\ pc' = "center_done"
    /\ UNCHANGED <<mainVars, text, width>>

BannerNext == Center

BannerSpec == BannerInit /\ [][BannerNext]_vars

(***************************************************************************)
(* main: one run of the release script.  Every external command and every  *)
(* prompt is one step; its result is any result the command can give.      *)
(***************************************************************************)
\* an external command that returned rc (out: what check_branch reads from
\* git rev-parse), a prompt (out: the answer), a lookup of a tool (out: the
\* tool), or an open of the manifest for reading or writing (rc 1: refused)
Event(op, rc, out) == [op |-> op, rc |-> rc, out |-> out]

\* print_error(message); sys.exit(1)
Fail(message) ==
    /\ errors' = Append(errors, message)
    /\ exit_code' = 1
    /\ pc' = "done"
    /\ uncaught' = uncaught

\* an exception no handler catches: the interpreter prints the traceback and
\* exits with status 1
Raise(exception) ==
    /\ uncaught' = exception
    /\ exit_code' = 1
    /\ pc' = "done"
    /\ errors' = errors

Goto(label) ==
    /\ pc' = label
    /\ UNCHANGED <<errors, uncaught, exit_code>>

\* f":rocket: Release version {version}"
ReleaseMessage(version) ==
    <<":", "r", "o", "c", "k", "e", "t", ":", " ",
      "R", "e", "l", "e", "a", "s", "e", " ",
      "v", "e", "r", "s", "i", "o", "n", " ">> \o version

\* f"v{version}"
TagName(version) == <<"v">> \o version

\* str.lower on the answers of the model
Lower(answer) == IF answer = "Y" THEN "y" ELSE IF answer = "YES" THEN "yes" ELSE answer

Answers == {"y", "Y", "n", "", "yes", "YES"}

\* the start of main; print_logo and print_step only print
MainInit ==
    /\ pc = "check_git"
    /\ installed \in SUBSET {"git", "cargo"}
    /\ readable \in BOOLEAN
    /\ manifest0 \in Manifests
    /\ manifest = manifest0
    /\ current_version = <<>>
    /\ new_version = <<>>
    /\ trace = <<>>
    /\ errors = <<>>
    /\ uncaught = "none"
    /\ exit_code = -1
    /\ commits = <<>>
    /\ pushed = <<>>
    /\ tags = <<>>
    /\ pushed_tags = <<>>
    /\ text = <<>> /\ width = 0 /\ ret = <<>>

\* check_tool_installed(tool_name), at label here of main's loop
check_tool_installed(tool_name, here, next) ==
    /\ pc = here
    /\ IF tool_name \in installed
       THEN /\ trace' = Append(trace, Event("which", 0, tool_name))
            /\ Goto(next)
       ELSE /\ trace' = Append(trace, Event("which", 1, tool_name))
            /\ Fail("{tool_name} is not installed. Please install it and try again.")
    /\ UNCHANGED <<installed, readable, manifest0, manifest, current_version,
                   new_version, commits, pushed, tags, pushed_tags, text,
                   width, ret>>

CheckGit == check_tool_installed("git", "check_git", "check_cargo")

CheckCargo == check_tool_installed("cargo", "check_cargo", "check_branch")

\* check_branch: check_output raises CalledProcessError on a non-zero status
CheckBranch ==
    /\ pc = "check_branch"
    /\ \E out \in {"main", "dev", "failed"} :
          IF out = "failed"
          THEN /\ trace' = Append(trace, Event("git rev-parse", 128, ""))
               /\ Raise("CalledProcessError")
          ELSE /\ trace' = Append(trace, Event("git rev-parse", 0, out))
               /\ IF out # "main"
                  THEN Fail("You must be on the main branch to release.")
                  ELSE Goto("check_uncommitted")
    /\ UNCHANGED <<installed, readable, manifest0, manifest, current_version,
                   new_version, commits, pushed, tags, pushed_tags, text,
                   width, ret>>

\* check_uncommitted_changes
CheckUncommitted ==
    /\ pc = "check_uncommitted"
    /\ \E rc \in {0, 1} :
          /\ trace' = Append(trace, Event("git diff-index", rc, ""))
          /\ IF rc # 0
             THEN Fail("You have uncommitted changes. Please commit or stash them before releasing.")
             ELSE Goto("get_version")
    /\ UNCHANGED <<installed, readable, manifest0, manifest, current_version,
                   new_version, commits, pushed, tags, pushed_tags, text,
                   width, ret>>

\* current_version = get_current_version()
GetVersion ==
    /\ pc = "get_version"
    /\ IF ~readable
       THEN /\ trace' = Append(trace, Event("read Cargo.toml", 1, ""))
            /\ Raise("OSError")
            /\ UNCHANGED current_version
       ELSE /\ trace' = Append(trace, Event("read Cargo.toml", 0, ""))
            /\ IF get_current_version(manifest) = <<>>
               THEN /\ Fail("Could not find version in Cargo.toml")
                    /\ UNCHANGED current_version
               ELSE /\ current_version' = get_current_version(manifest)
                    /\ Goto("input_version")
    /\ UNCHANGED <<installed, readable, manifest0, manifest, new_version,
                   commits, pushed, tags, pushed_tags, text, width, ret>>

\* new_version = input(...): a line, or EOFError at the end of the input
InputVersion ==
    /\ pc = "input_version"
    /\ \E eof \in BOOLEAN, line \in VersionInputs :
          IF eof
          THEN /\ trace' = Append(trace, Event("prompt version", 0, "EOF"))
               /\ Raise("EOFError")
               /\ UNCHANGED new_version
          ELSE /\ trace' = Append(trace, Event("prompt version", 0, "line"))
               /\ new_version' = line
               /\ Goto("validate")
    /\ UNCHANGED <<installed, readable, manifest0, manifest, current_version,
                   commits, pushed, tags, pushed_tags, text, width, ret>>

\* a plausible slip: the version is written whatever the check says
ValidateVersion_unchecked ==
    /\ pc = "validate"
    /\ Goto("update_version")
    /\ UNCHANGED <<installed, readable, manifest0, manifest, current_version,
                   new_version, trace, commits, pushed, tags, pushed_tags,
                   text, width, ret>>

\* if not is_valid_version(new_version): print_error(...); sys.exit(1)
ValidateVersion ==
    /\ pc = "validate"
    /\ IF ~is_valid_version(new_version)
       THEN Fail("Invalid version format. Please use semantic versioning (e.g., 1.2.3).")
       ELSE Goto("update_version")
    /\ UNCHANGED <<installed, readable, manifest0, manifest, current_version,
                   new_version, trace, commits, pushed, tags, pushed_tags,
                   text, width, ret>>

\* update_version(new_version): the manifest is read, then overwritten; open
\* for writing raises when the file cannot be written
UpdateVersion ==
    /\ pc = "update_version"
    /\ \E writable \in BOOLEAN :
          IF writable
          THEN /\ manifest' = update_version(manifest, new_version)
               /\ trace' = trace \o <<Event("read Cargo.toml", 0, ""),
                                       Event("write Cargo.toml", 0, "")>>
               /\ Goto("cargo_check")
          ELSE /\ trace' = trace \o <<Event("read Cargo.toml", 0, ""),
                                       Event("write Cargo.toml", 1, "")>>
               /\ Raise("OSError")
               /\ UNCHANGED manifest
    /\ UNCHANGED <<installed, readable, manifest0, current_version,
                   new_version, commits, pushed, tags, pushed_tags, text,
                   width, ret>>

\* run_checks: subprocess.run(["cargo", "check"], check=True)
CargoCheck ==
    /\ pc = "cargo_check"
    /\ \E rc \in {0, 101} :
          /\ trace' = Append(trace, Event("cargo check", rc, ""))
          /\ IF rc # 0 THEN Raise("CalledProcessError") ELSE Goto("cargo_test")
    /\ UNCHANGED <<installed, readable, manifest0, manifest, current_version,
                   new_version, commits, pushed, tags, pushed_tags, text,
                   width, ret>>

\* a plausible slip: check=True left out, as in show_changes
CargoTest_unchecked ==
    /\ pc = "cargo_test"
    /\ \E rc \in {0, 101} :
          /\ trace' = Append(trace, Event("cargo test", rc, ""))
          /\ Goto("git_status")
    /\ UNCHANGED <<installed, readable, manifest0, manifest, current_version,
                   new_version, commits, pushed, tags, pushed_tags, text,
                   width, ret>>

\* run_checks: subprocess.run(["cargo", "test"], check=True)
CargoTest ==
    /\ pc = "cargo_test"
    /\ \E rc \in {0, 101} :
          /\ trace' = Append(trace, Event("cargo test", rc, ""))
          /\ IF rc # 0 THEN Raise("CalledProcessError") ELSE Goto("git_status")
    /\ UNCHANGED <<installed, readable, manifest0, manifest, current_version,
                   new_version, commits, pushed, tags, pushed_tags, text,
                   width, ret>>

\* show_changes: subprocess.run(["git", "status", "--porcelain"]), whose
\* status is not read
GitStatus ==
    /\ pc = "git_status"
    /\ \E rc \in {0, 128} :
          /\ trace' = Append(trace, Event("git status", rc, ""))
          /\ Goto("confirm")
    /\ UNCHANGED <<installed, readable, manifest0, manifest, current_version,
                   new_version, commits, pushed, tags, pushed_tags, text,
                   width, ret>>

\* show_changes: the confirmation prompt; main cancels the release unless
\* the answer, in lower case, is "y"
Confirm ==
    /\ pc = "confirm"
    /\ \E eof \in BOOLEAN, answer \in Answers :
          IF eof
          THEN /\ trace' = Append(trace, Event("prompt confirm", 0, "EOF"))
               /\ Raise("EOFError")
          ELSE /\ trace' = Append(trace, Event("prompt confirm", 0, answer))
               /\ IF Lower(answer) = "y"
                  THEN Goto("git_add")
                  ELSE Fail("Release cancelled.")
    /\ UNCHANGED <<installed, readable, manifest0, manifest, current_version,
                   new_version, commits, pushed, tags, pushed_tags, text,
                   width, ret>>

\* commit_and_push: one command, run with check=True inside the try block;
\* CalledProcessError is caught, reported and ends the run
git_step(here, op, next) ==
    /\ pc = here
    /\ \E rc \in {0, 1} :
          /\ trace' = Append(trace, Event(op, rc, ""))
          /\ IF rc # 0
             THEN /\ Fail("Git operations failed: {e}")
                  /\ UNCHANGED <<commits, pushed, tags, pushed_tags>>
             ELSE /\ commits' = IF op = "git commit"
                                THEN Append(commits, ReleaseMessage(new_version))
                                ELSE commits
                  /\ pushed' = IF op = "git push" THEN commits ELSE pushed
                  /\ tags' = IF op = "git tag"
                             THEN Append(tags, TagName(new_version))
                             ELSE tags
                  /\ pushed_tags' = IF op = "git push --tags" THEN tags ELSE pushed_tags
                  /\ IF next = "done"
                     THEN /\ pc' = "done"
                          /\ exit_code' = 0
                          /\ UNCHANGED <<errors, uncaught>>
                     ELSE Goto(next)
    /\ UNCHANGED <<installed, readable, manifest0, manifest, current_version,
                   new_version, text, width, ret>>

GitAdd == git_step("git_add", "git add", "git_commit")

GitCommit == git_step("git_commit", "git commit", "git_push")

GitPush == git_step("git_push", "git push", "git_tag")

GitTag == git_step("git_tag", "git tag", "git_push_tags")

\* the last command; main then prints the success message and returns
GitPushTags == git_step("git_push_tags", "git push --tags", "done")

Next ==
    \/ CheckGit
    \/ CheckCargo
    \/ CheckBranch
    \/ CheckUncommitted
    \/ GetVersion
    \/ InputVersion
    \/ ValidateVersion
    \/ UpdateVersion
    \/ CargoCheck
    \/ CargoTest
    \/ GitStatus
    \/ Confirm
    \/ GitAdd
    \/ GitCommit
    \/ GitPush
    \/ GitTag
    \/ GitPushTags

Spec == MainInit /\ [][Next]_vars

(***************************************************************************)
(* What the claims say, stated without the scans above.                    *)
(***************************************************************************)
\* t is three non-empty runs of digits separated by single dots
IsTriple(t) ==
    \E i, j \in 1..Len(t) :
        /\ 1 < i /\ i + 1 < j /\ j < Len(t)
        /\ t[i] = "." /\ t[j] = "."
        /\ \A k \in (1..Len(t)) \ {i, j} : t[k] \in Digits

RECURSIVE Lines(_)
\* the lines of a text, without their newlines
Lines(s) ==
    IF \A k \in 1..Len(s) : s[k] # "\n" THEN <<s>>
    ELSE LET n == CHOOSE k \in 1..Len(s) :
                      s[k] = "\n" /\ \A j \in 1..(k - 1) : s[j] # "\n"
         IN <<SubSeq(s, 1, n - 1)>> \o Lines(SubSeq(s, n + 1, Len(s)))

\* l is a line version = "X.Y.Z"
IsVersionLine(l) ==
    \E t \in {SubSeq(l, 12, Len(l) - 1)} :
        /\ Len(l) > 12
        /\ l = Assign(VERSION_KEY, t)
        /\ IsTriple(t)

\* the X.Y.Z of a line version = "X.Y.Z"
LineVersion(l) == SubSeq(l, 12, Len(l) - 1)

\* the versions of the lines version = "X.Y.Z" of a text
VersionsOf(s) ==
    {LineVersion(Lines(s)[k]) : k \in {j \in 1..Len(Lines(s)) : IsVersionLine(Lines(s)[j])}}

\* sub occurs in s
Contains(s, sub) == \E i \in 1..Len(s) : HasLit(s, i, sub)

\* the text holds version = "v"
HoldsVersion(s, v) == Contains(s, Assign(VERSION_KEY, v))

\* the number of the line of s that position i is in
LineOf(s, i) == 1 + Cardinality({k \in 1..(i - 1) : s[k] = "\n"})

\* the events of the run with operation op
EventsOf(op) == {i \in 1..Len(trace) : trace[i].op = op}

\* op ran and returned 0
Succeeded(op) == \E i \in EventsOf(op) : trace[i].rc = 0

Commands ==
    {"git rev-parse", "git diff-index", "cargo check", "cargo test",
     "git status", "git add", "git commit", "git push", "git tag",
     "git push --tags"}

\* the operations that change the manifest or the repository
Mutating ==
    {"write Cargo.toml", "git add", "git commit", "git push", "git tag",
     "git push --tags"}

(***************************************************************************)
(* C1.  For a manifest with a line version = "X.Y.Z", get_current_version  *)
(* returns the X.Y.Z of such a line, and after update_version(N), N a      *)
(* version X.Y.Z that is_valid_version accepts, get_current_version        *)
(* returns N.                                                              *)
(***************************************************************************)
C1_RoundTrip ==
    (/\ pc = "v_done"
     /\ VersionsOf(manifest0) # {}
     /\ is_valid_version(new_version)
     /\ IsTriple(new_version))
    => /\ current_version \in VersionsOf(manifest0)
       /\ ret = new_version

(***************************************************************************)
(* C2.  update_version(N) leaves every line of the manifest as it was,     *)
(* except the line get_current_version reads its version from.             *)
(***************************************************************************)
C2_OtherLinesKept ==
    (/\ pc \in {"v_reget", "v_done"}
     /\ current_version # <<>>
     /\ IsTriple(new_version))
    => LET read == LineOf(manifest0, SearchFrom(manifest0, 1))
       IN /\ Len(Lines(manifest)) = Len(Lines(manifest0))
          /\ \A j \in 1..Len(Lines(manifest0)) :
                j # read => Lines(manifest)[j] = Lines(manifest0)[j]

(***************************************************************************)
(* C3.  is_valid_version(s) is true exactly when s is three non-empty runs *)
(* of digits separated by single dots, with nothing before or after.       *)
(***************************************************************************)
C3_ValidIffTriple ==
    pc = "valid_done" => (ret[1] <=> IsTriple(text))

(***************************************************************************)
(* C4.  The manifest is written, and git add, commit, push or tag is run,  *)
(* only after, in this order: git and cargo were found, the branch was     *)
(* main, the tree was clean, a version was read from the manifest and the  *)
(* operator's version passed is_valid_version.  After an invalid version   *)
(* or a dirty tree the manifest is as it was and there is no commit.       *)
(***************************************************************************)
C4_GuardedEffects ==
    /\ \A i \in 1..Len(trace) :
          trace[i].op \in Mutating =>
             /\ {"git", "cargo"} \subseteq installed
             /\ i > 6
             /\ trace[1] = Event("which", 0, "git")
             /\ trace[2] = Event("which", 0, "cargo")
             /\ trace[3] = Event("git rev-parse", 0, "main")
             /\ trace[4] = Event("git diff-index", 0, "")
             /\ trace[5] = Event("read Cargo.toml", 0, "")
             /\ trace[6] = Event("prompt version", 0, "line")
             /\ current_version # <<>>
             /\ current_version = get_current_version(manifest0)
             /\ is_valid_version(new_version)
    /\ manifest # manifest0 => Succeeded("write Cargo.toml")
    /\ commits # <<>> => EventsOf("git commit") # {}
    /\ (\/ ~is_valid_version(new_version)
        \/ \E i \in EventsOf("git diff-index") : trace[i].rc # 0)
       => /\ manifest = manifest0
          /\ commits = <<>> /\ pushed = <<>> /\ tags = <<>> /\ pushed_tags = <<>>
          /\ \A i \in 1..Len(trace) : trace[i].op \notin Mutating

\* C4, witness: a run that wrote the manifest, committed and tagged
C4_Witness ==
    /\ manifest # manifest0
    /\ Len(commits) = 1
    /\ EventsOf("git tag") # {}

\* every step the run needs to end with status 0 succeeded
C5_AllSucceeded ==
    /\ {"git", "cargo"} \subseteq installed
    /\ \E i \in EventsOf("git rev-parse") : trace[i] = Event("git rev-parse", 0, "main")
    /\ Succeeded("git diff-index")
    /\ readable /\ get_current_version(manifest0) # <<>>
    /\ is_valid_version(new_version)
    /\ \E i \in EventsOf("prompt confirm") : trace[i].out \in {"y", "Y"}
    /\ \A op \in {"cargo check", "cargo test", "git add", "git commit",
                  "git push", "git tag", "git push --tags"} : Succeeded(op)

\* one of the failures the claim lists happened
C5_ListedFailure ==
    \/ ~({"git", "cargo"} \subseteq installed)
    \/ \E i \in EventsOf("git rev-parse") : trace[i].out # "main"
    \/ \E i \in EventsOf("git diff-index") : trace[i].rc # 0
    \/ ~readable
    \/ get_current_version(manifest0) = <<>>
    \/ EventsOf("prompt version") # {} /\ ~is_valid_version(new_version)
    \/ \E i \in EventsOf("prompt confirm") : trace[i].out \notin {"y", "Y"}
    \/ \E i \in 1..Len(trace) :
          /\ trace[i].op \in {"cargo check", "cargo test", "git add",
                              "git commit", "git push", "git tag",
                              "git push --tags"}
          /\ trace[i].rc # 0

C6_Released ==
    (pc = "done" /\ exit_code = 0)
    => /\ HoldsVersion(manifest, new_version)
       /\ Len(commits) = 1
       /\ Contains(commits[1], new_version)
       /\ tags = <<TagName(new_version)>>
       /\ pushed_tags = tags

(***************************************************************************)
(* C7.  When a run fails after update_version, it ends with the manifest   *)
(* holding the new version, and with every commit and tag it made in       *)
(* place.                                                                  *)
(***************************************************************************)
C7_NoRollback ==
    (/\ pc = "done"
     /\ exit_code = 1
     /\ Succeeded("write Cargo.toml"))
    => /\ HoldsVersion(manifest, new_version)
       /\ Succeeded("git commit") => commits = <<ReleaseMessage(new_version)>>
       /\ Succeeded("git push") => pushed = commits
       /\ Succeeded("git tag") => tags = <<TagName(new_version)>>

\* ret is floor((width - W) / 2) spaces, the text and spaces up to a display
\* width of exactly width, W being the display width of the text
C8_Layout ==
    LET W == wcswidth(strip_ansi(text))
        left == (width - W) \div 2
    IN /\ left >= 0
       /\ \E right \in 0..(width + 1) : ret = Spaces(left) \o text \o Spaces(right)
       /\ wcswidth(strip_ansi(ret)) = width

(***************************************************************************)
(* C8.  center_text(text, T), for every text of display width W (escape    *)
(* sequences removed) and every T, is floor((T - W) / 2) spaces, the text, *)
(* and spaces up to a display width of exactly T.                          *)
(***************************************************************************)
C8_EveryWidth ==
    (pc = "center_done" /\ wcswidth(strip_ansi(text)) >= 0) => C8_Layout

(***************************************************************************)
(* C8, amended.  The same, for every text of display width W and every     *)
(* T >= W.                                                                 *)
(***************************************************************************)
C8_WidthAtLeastText ==
    (/\ pc = "center_done"
     /\ wcswidth(strip_ansi(text)) >= 0
     /\ width >= wcswidth(strip_ansi(text)))
    => C8_Layout

\* C8, witness: a text with an escape sequence and a wide character,
\* narrower than T by an odd number of columns
C8_Witness ==
    /\ pc = "center_done"
    /\ strip_ansi(text) # text
    /\ \E k \in 1..Len(text) : text[k] = "WIDE"
    /\ wcswidth(strip_ansi(text)) >= 3
    /\ (width - wcswidth(strip_ansi(text))) % 2 = 1
    /\ width > wcswidth(strip_ansi(text))

(***************************************************************************)
(* C9.  Once an external command has returned a non-zero status, the run   *)
(* runs no later command, shows no later prompt and does not write the     *)
(* manifest.                                                               *)
(***************************************************************************)
C9_StopsAtFailure ==
    \A i, j \in 1..Len(trace) :
        (/\ trace[i].op \in Commands
         /\ trace[i].rc # 0
         /\ trace[j].op \in Commands \cup {"prompt version", "prompt confirm",
                                           "write Cargo.toml"})
        => j <= i

(***************************************************************************)
(* C10.  A run that fails prints its error message through print_error     *)
(* before it ends, once.                                                   *)
(***************************************************************************)
C10_ErrorPrinted ==
    (pc = "done" /\ exit_code = 1) => Len(errors) = 1

====
